---- MODULE Spec2Model ----
(***************************************************************************)
(* Model of grab's per-transfer engine (response.go): one Response whose   *)
(* copy() runs as the copy task, the owners of the two notification        *)
(* channels, and concurrent readers that call the atomic accessors.        *)
(*                                                                         *)
(* Environment: the body is an arbitrary io.Reader, the destination        *)
(* handle obeys the io.Writer contract (a nil error means all n bytes were *)
(* written), os.Open and io.Copy may fail, os.Remove of the closed file    *)
(* succeeds.  The destination file starts empty.  The hash algorithm is    *)
(* the caller's: the digest io.Copy leaves in it is an input.              *)
(*                                                                         *)
(* The command-line program (main) is modelled with the batch dispatcher   *)
(* it calls; the dispatcher's code is not part of the sources and is       *)
(* modelled from its boundary contract.                                    *)
(***************************************************************************)
EXTENDS Integers, Sequences, FiniteSets, TLC

\* ---------------------------------------------------------------- bounds
\* largest n one Body.Read returns (stands for len(buffer) = 4096)
MaxChunk == 1
\* number of Body.Read calls before the body must end (EOF or error)
MaxReads == 2
\* largest total size announced for the transfer
MaxSize == 1
\* largest small number of positional arguments of the command line
MaxArgs == 3

\* os.Exit(code): the parent sees the low 8 bits of code
ExitStatusRange == 256

\* digests the hash algorithm behind Request.Hash can produce
Digests == {0, 1}

NoError == "nil"
EOF == "EOF"
errChecksumMismatch == "errChecksumMismatch"
ReadErrors == {"errRead", "errCanceled"}
ZeroTime == "zero"
\* a nil []byte
NilBytes == <<>>

\* kinds of notification channel a caller can configure
ChanKinds == {"nil", "unbuffered", "buffered"}

VARIABLES
  pc,                \* position of the copy task
  Request,           \* the Transfer Descriptor (read-only)
  Size,              \* Response.Size
  reads,             \* Body.Read calls made so far
  bodyBytes,         \* sum of n over all Body.Read calls
  n, err,            \* locals of the loop body: result of the last Read
  complete,          \* local of copy()
  writer,            \* Response.writer: "handle" or "nil"
  handleCloses,      \* Close() calls made on the destination handle
  written,           \* number of bytes the destination handle accepted
  fileExists,        \* the destination file is present
  f,                 \* read handle of the verifier: "none", "open", "closed"
  hashState,         \* digest held by Request.Hash
  hashed,            \* io.Copy into the hash: "no", "partial" (failed), "full"
  bytesTransferred,  \* Response.bytesTransferred (atomic)
  doneFlag,          \* Response.doneFlag (atomic)
  Error,             \* Response.Error
  End,               \* Response.End
  closeCalls,        \* invocations of Response.close
  errArg,            \* parameter err of Response.close
  ret,               \* value copy() returned, "none" before it returns
  chanInternal,      \* buffer of Request.notifyOnCloseInternal
  chanUser,          \* buffer of Request.NotifyOnClose
  recvInternal,      \* times the internal owner received this Response
  recvUser,          \* times the user owner received this Response
  obsComplete,       \* last result a reader got from IsComplete()
  obsBytes,          \* last result a reader got from BytesTransferred()
  mainPc,            \* position of main(), "idle" when main is not modelled
  args,              \* len(flag.Args()): number of positional arguments
  urls,              \* len(urls): number of URLs handed to the dispatcher
  ctx,               \* context of the batch: "background", "cancellable",
                     \* "cancelled"
  batchCalled,       \* GetBatch has been invoked
  inflight,          \* transfers of the batch not yet yielded on respch
  received,          \* results main has taken from respch
  failed,            \* local of main()
  exitStatus         \* exit status of the process, -1 while it runs

cliVars == <<mainPc, args, urls, ctx, batchCalled, inflight, received, failed,
             exitStatus>>

vars == <<cliVars, pc, Request, Size, reads, bodyBytes, n, err, complete,
          writer, handleCloses, written, fileExists, f, hashState, hashed,
          bytesTransferred, doneFlag, Error, End, closeCalls, errArg, ret,
          chanInternal, chanUser, recvInternal, recvUser, obsComplete,
          obsBytes>>

loopVars == <<n, err>>
copyVars == <<reads, bodyBytes, n, err, complete>>
fileVars == <<written, fileExists, f, hashState, hashed>>
chanVars == <<chanInternal, chanUser, recvInternal, recvUser>>
obsVars == <<obsComplete, obsBytes>>
respVars == <<writer, handleCloses, bytesTransferred, doneFlag, Error, End>>
engineVars == <<pc, Request, Size, copyVars, respVars, fileVars, closeCalls,
                errArg, ret, chanVars, obsVars>>

\* ------------------------------------------------------- pure operators
\* hash.Hash.Sum(nil): the digest bytes of the hash state
Sum(h) == <<h>>

\* IsComplete comparing with >= instead of >
IsCompleteGe == doneFlag >= 0

\* Response.IsComplete
IsComplete == doneFlag > 0

\* Response.BytesTransferred
BytesTransferred == bytesTransferred

\* Response.Progress as the fraction <<numerator, denominator>>
Progress == IF Size = 0 THEN <<0, 1>> ELSE <<bytesTransferred, Size>>

\* os.Exit(code) as the parent process sees it
ExitStatus(code) == code % ExitStatusRange

\* ----------------------------------------------------------------- Init
\* main() is not running
CliIdle ==
  /\ mainPc = "idle"
  /\ args = 0
  /\ urls = 0
  /\ ctx = "background"
  /\ batchCalled = FALSE
  /\ inflight = 0
  /\ received = 0
  /\ failed = 0
  /\ exitStatus = -1

Init ==
  /\ CliIdle
  /\ pc = "read"
  /\ Request \in [Hash : BOOLEAN,
                  Checksum : {NilBytes} \cup {<<d>> : d \in Digests},
                  RemoveOnError : BOOLEAN,
                  notifyOnCloseInternal : ChanKinds,
                  NotifyOnClose : ChanKinds]
  /\ Size \in 0..MaxSize
  /\ reads = 0
  /\ bodyBytes = 0
  /\ n = 0
  /\ err = NoError
  /\ complete = FALSE
  /\ writer = "handle"
  /\ handleCloses = 0
  /\ written = 0
  /\ fileExists = TRUE
  /\ f = "none"
  /\ hashState = 0
  /\ hashed = "no"
  /\ bytesTransferred = 0
  /\ doneFlag = 0
  /\ Error = NoError
  /\ End = ZeroTime
  /\ closeCalls = 0
  /\ errArg = NoError
  /\ ret = "none"
  /\ chanInternal = <<>>
  /\ chanUser = <<>>
  /\ recvInternal = 0
  /\ recvUser = 0
  /\ obsComplete = FALSE
  /\ obsBytes = 0

\* ---------------------------------------------------------------- copy()
\* the call c.close(e): enter the finalizer with err = e
CallClose(e) ==
  /\ pc' = "close_writer"
  /\ errArg' = e
  /\ closeCalls' = closeCalls + 1

\* n and err go out of scope when the loop body is left
LeaveLoopBody ==
  /\ n' = 0
  /\ err' = NoError

\* Read with the read-error path returning err without the finalizer
ReadNoFinalize ==
  /\ pc = "read"
  /\ reads < MaxReads
  /\ \E k \in 0..MaxChunk, e \in {NoError, EOF} \cup ReadErrors :
       /\ (e = NoError) => (reads + 1 < MaxReads)
       /\ reads' = reads + 1
       /\ bodyBytes' = bodyBytes + k
       /\ IF e \in ReadErrors
            THEN /\ LeaveLoopBody
                 /\ pc' = "returned"
                 /\ ret' = e
                 /\ UNCHANGED <<errArg, closeCalls>>
            ELSE /\ n' = k
                 /\ err' = e
                 /\ pc' = "write"
                 /\ UNCHANGED <<errArg, closeCalls, ret>>
  /\ UNCHANGED <<cliVars, Request, Size, complete, respVars, fileVars, chanVars,
                 obsVars>>

\* Read advancing the counter by n before the test of err
ReadCountsOnError ==
  /\ pc = "read"
  /\ reads < MaxReads
  /\ \E k \in 0..MaxChunk, e \in {NoError, EOF} \cup ReadErrors :
       /\ (e = NoError) => (reads + 1 < MaxReads)
       /\ reads' = reads + 1
       /\ bodyBytes' = bodyBytes + k
       /\ IF e \in ReadErrors
            THEN /\ LeaveLoopBody
                 /\ CallClose(e)
                 /\ bytesTransferred' = bytesTransferred + k
            ELSE /\ n' = k
                 /\ err' = e
                 /\ pc' = "write"
                 /\ UNCHANGED <<errArg, closeCalls, bytesTransferred>>
  /\ UNCHANGED <<cliVars, Request, Size, complete, writer, handleCloses, doneFlag,
                 Error, End, fileVars, ret, chanVars, obsVars>>

\* n, err := c.HTTPResponse.Body.Read(buffer[:]) and the test of err
Read ==
  /\ pc = "read"
  /\ reads < MaxReads
  /\ \E k \in 0..MaxChunk, e \in {NoError, EOF} \cup ReadErrors :
       /\ (e = NoError) => (reads + 1 < MaxReads)
       /\ reads' = reads + 1
       /\ bodyBytes' = bodyBytes + k
       /\ IF e \in ReadErrors
            THEN LeaveLoopBody /\ CallClose(e)
            ELSE /\ n' = k
                 /\ err' = e
                 /\ pc' = "write"
                 /\ UNCHANGED <<errArg, closeCalls>>
  /\ UNCHANGED <<cliVars, Request, Size, complete, respVars, fileVars, ret, chanVars,
                 obsVars>>

\* Write with werr ignored: the loop goes on after a failed write
WriteIgnoreError ==
  /\ pc = "write"
  /\ \E k \in 0..n : written' = written + k
  /\ pc' = "advance"
  /\ UNCHANGED <<loopVars, errArg, closeCalls>>
  /\ UNCHANGED <<cliVars, Request, Size, reads, bodyBytes, complete, respVars,
                 fileExists, f, hashState, hashed, ret, chanVars, obsVars>>

\* c.writer.Write(buffer[:n]) and the test of werr
Write ==
  /\ pc = "write"
  /\ \E ok \in BOOLEAN :
       IF ok
         THEN /\ written' = written + n
              /\ pc' = "advance"
              /\ UNCHANGED <<loopVars, errArg, closeCalls>>
         ELSE /\ \E k \in 0..n : written' = written + k
              /\ LeaveLoopBody
              /\ CallClose("errWrite")
  /\ UNCHANGED <<cliVars, Request, Size, reads, bodyBytes, complete, respVars,
                 fileExists, f, hashState, hashed, ret, chanVars, obsVars>>

\* Advance testing for end-of-stream before the counter is advanced
AdvanceBreakFirst ==
  /\ pc = "advance"
  /\ IF err = EOF
       THEN /\ handleCloses' = handleCloses + 1
            /\ complete' = TRUE
            /\ pc' = "verify"
            /\ UNCHANGED bytesTransferred
       ELSE /\ bytesTransferred' = bytesTransferred + n
            /\ pc' = "read"
            /\ UNCHANGED <<handleCloses, complete>>
  /\ LeaveLoopBody
  /\ UNCHANGED <<cliVars, Request, Size, reads, bodyBytes, writer,
                 doneFlag, Error, End, fileVars, closeCalls, errArg, ret,
                 chanVars, obsVars>>

\* Advance without c.writer.Close() at end-of-stream
AdvanceNoClose ==
  /\ pc = "advance"
  /\ bytesTransferred' = bytesTransferred + n
  /\ IF err = EOF
       THEN /\ complete' = TRUE
            /\ pc' = "verify"
       ELSE /\ pc' = "read"
            /\ UNCHANGED complete
  /\ LeaveLoopBody
  /\ UNCHANGED <<cliVars, Request, Size, reads, bodyBytes, writer, handleCloses,
                 doneFlag, Error, End, fileVars, closeCalls, errArg, ret,
                 chanVars, obsVars>>

\* Advance taking a read of 0 bytes for the end of the stream
AdvanceZeroEnds ==
  /\ pc = "advance"
  /\ bytesTransferred' = bytesTransferred + n
  /\ IF err = EOF \/ n = 0
       THEN /\ handleCloses' = handleCloses + 1
            /\ complete' = TRUE
            /\ pc' = "verify"
       ELSE /\ pc' = "read"
            /\ UNCHANGED <<handleCloses, complete>>
  /\ LeaveLoopBody
  /\ UNCHANGED <<cliVars, Request, Size, reads, bodyBytes, writer,
                 doneFlag, Error, End, fileVars, closeCalls, errArg, ret,
                 chanVars, obsVars>>

\* Advance storing n into the counter instead of adding it
AdvanceStore ==
  /\ pc = "advance"
  /\ bytesTransferred' = n
  /\ IF err = EOF
       THEN /\ handleCloses' = handleCloses + 1
            /\ complete' = TRUE
            /\ pc' = "verify"
       ELSE /\ pc' = "read"
            /\ UNCHANGED <<handleCloses, complete>>
  /\ LeaveLoopBody
  /\ UNCHANGED <<cliVars, Request, Size, reads, bodyBytes, writer,
                 doneFlag, Error, End, fileVars, closeCalls, errArg, ret,
                 chanVars, obsVars>>

\* atomic.AddUint64(&c.bytesTransferred, n) and the end-of-stream test
Advance ==
  /\ pc = "advance"
  /\ bytesTransferred' = bytesTransferred + n
  /\ IF err = EOF
       THEN /\ handleCloses' = handleCloses + 1
            /\ complete' = TRUE
            /\ pc' = "verify"
       ELSE /\ pc' = "read"
            /\ UNCHANGED <<handleCloses, complete>>
  /\ LeaveLoopBody
  /\ UNCHANGED <<cliVars, Request, Size, reads, bodyBytes, writer,
                 doneFlag, Error, End, fileVars, closeCalls, errArg, ret,
                 chanVars, obsVars>>

\* Verify entering the checksum stage when the hash alone is supplied
VerifyHashOnly ==
  /\ pc = "verify"
  /\ IF complete /\ Request.Hash
       THEN pc' = "open" /\ UNCHANGED <<errArg, closeCalls>>
       ELSE CallClose(NoError)
  /\ UNCHANGED <<cliVars, Request, Size, copyVars, respVars, fileVars, ret, chanVars,
                 obsVars>>

\* if complete && c.Request.Hash != nil && c.Request.Checksum != nil
Verify ==
  /\ pc = "verify"
  /\ IF complete /\ Request.Hash /\ Request.Checksum # NilBytes
       THEN pc' = "open" /\ UNCHANGED <<errArg, closeCalls>>
       ELSE CallClose(NoError)
  /\ UNCHANGED <<cliVars, Request, Size, copyVars, respVars, fileVars, ret, chanVars,
                 obsVars>>

\* f, err := os.Open(c.Filename)
Open ==
  /\ pc = "open"
  /\ \E ok \in BOOLEAN :
       IF ok
         THEN f' = "open" /\ pc' = "hash" /\ UNCHANGED <<errArg, closeCalls>>
         ELSE f' = f /\ CallClose("errOpen")
  /\ UNCHANGED <<cliVars, Request, Size, copyVars, respVars, written, fileExists,
                 hashState, hashed, ret, chanVars, obsVars>>

\* HashFile removing the file under RemoveOnError when io.Copy fails
HashFileRemoveOnError ==
  /\ pc = "hash"
  /\ \E ok \in BOOLEAN :
       IF ok
         THEN /\ \E d \in Digests : hashState' = d
              /\ hashed' = "full"
              /\ pc' = "compare"
              /\ UNCHANGED <<errArg, closeCalls, fileExists>>
         ELSE /\ \E d \in Digests : hashState' = d
              /\ hashed' = "partial"
              /\ fileExists' = ~Request.RemoveOnError
              /\ CallClose("errHash")
  /\ UNCHANGED <<cliVars, Request, Size, copyVars, respVars, written, f,
                 ret, chanVars, obsVars>>

\* io.Copy(c.Request.Hash, f)
HashFile ==
  /\ pc = "hash"
  /\ \E ok \in BOOLEAN :
       IF ok
         THEN /\ \E d \in Digests : hashState' = d
              /\ hashed' = "full"
              /\ pc' = "compare"
              /\ UNCHANGED <<errArg, closeCalls>>
         ELSE /\ \E d \in Digests : hashState' = d
              /\ hashed' = "partial"
              /\ CallClose("errHash")
  /\ UNCHANGED <<cliVars, Request, Size, copyVars, respVars, written, fileExists, f,
                 ret, chanVars, obsVars>>

\* Compare removing the file on every mismatch, RemoveOnError or not
CompareAlwaysRemove ==
  /\ pc = "compare"
  /\ IF Sum(hashState) # Request.Checksum
       THEN /\ f' = "closed" /\ fileExists' = FALSE
            /\ CallClose(errChecksumMismatch)
       ELSE /\ UNCHANGED <<f, fileExists>>
            /\ CallClose(NoError)
  /\ UNCHANGED <<cliVars, Request, Size, copyVars, respVars, written, hashState,
                 hashed, ret, chanVars, obsVars>>

\* sum := c.Request.Hash.Sum(nil); bytes.Equal; os.Remove on mismatch
Compare ==
  /\ pc = "compare"
  /\ IF Sum(hashState) # Request.Checksum
       THEN /\ IF Request.RemoveOnError
                 THEN f' = "closed" /\ fileExists' = FALSE
                 ELSE UNCHANGED <<f, fileExists>>
            /\ CallClose(errChecksumMismatch)
       ELSE /\ UNCHANGED <<f, fileExists>>
            /\ CallClose(NoError)
  /\ UNCHANGED <<cliVars, Request, Size, copyVars, respVars, written, hashState,
                 hashed, ret, chanVars, obsVars>>

\* --------------------------------------------------------------- close()
\* CloseWriter closing the handle without c.writer = nil
CloseWriterKeepsHandle ==
  /\ pc = "close_writer"
  /\ IF writer # "nil"
       THEN handleCloses' = handleCloses + 1
       ELSE UNCHANGED handleCloses
  /\ pc' = "close_error"
  /\ UNCHANGED <<cliVars, Request, Size, copyVars, writer, bytesTransferred, doneFlag,
                 Error, End, fileVars, closeCalls, errArg, ret, chanVars,
                 obsVars>>

\* if c.writer != nil { c.writer.Close(); c.writer = nil }
CloseWriter ==
  /\ pc = "close_writer"
  /\ IF writer # "nil"
       THEN handleCloses' = handleCloses + 1 /\ writer' = "nil"
       ELSE UNCHANGED <<handleCloses, writer>>
  /\ pc' = "close_error"
  /\ UNCHANGED <<cliVars, Request, Size, copyVars, bytesTransferred, doneFlag, Error,
                 End, fileVars, closeCalls, errArg, ret, chanVars, obsVars>>

\* CloseSetError recording nothing
CloseSetErrorSkip ==
  /\ pc = "close_error"
  /\ pc' = "close_end"
  /\ UNCHANGED <<cliVars, Request, Size, copyVars, respVars, fileVars, closeCalls,
                 errArg, ret, chanVars, obsVars>>

\* c.Error = err
CloseSetError ==
  /\ pc = "close_error"
  /\ Error' = errArg
  /\ pc' = "close_end"
  /\ UNCHANGED <<cliVars, Request, Size, copyVars, writer, handleCloses,
                 bytesTransferred, doneFlag, End, fileVars, closeCalls,
                 errArg, ret, chanVars, obsVars>>

\* CloseSetEnd stamping End only when the transfer succeeded
CloseSetEndOnSuccess ==
  /\ pc = "close_end"
  /\ End' = IF errArg = NoError THEN "now" ELSE End
  /\ pc' = "close_done"
  /\ UNCHANGED <<cliVars, Request, Size, copyVars, writer, handleCloses,
                 bytesTransferred, doneFlag, Error, fileVars, closeCalls,
                 errArg, ret, chanVars, obsVars>>

\* c.End = time.Now()
CloseSetEnd ==
  /\ pc = "close_end"
  /\ End' = "now"
  /\ pc' = "close_done"
  /\ UNCHANGED <<cliVars, Request, Size, copyVars, writer, handleCloses,
                 bytesTransferred, doneFlag, Error, fileVars, closeCalls,
                 errArg, ret, chanVars, obsVars>>

\* atomic.AddInt32(&c.doneFlag, 1)
CloseSetDone ==
  /\ pc = "close_done"
  /\ doneFlag' = doneFlag + 1
  /\ pc' = "close_notifyInternal"
  /\ UNCHANGED <<cliVars, Request, Size, copyVars, writer, handleCloses,
                 bytesTransferred, Error, End, fileVars, closeCalls, errArg,
                 ret, chanVars, obsVars>>

\* CloseNotifyInternal sending without the nil test: a send on a nil
\* channel blocks forever
CloseNotifyInternalNoNilTest ==
  /\ pc = "close_notifyInternal"
  /\ Request.notifyOnCloseInternal = "buffered"
  /\ Len(chanInternal) < 1
  /\ chanInternal' = Append(chanInternal, "c")
  /\ pc' = "close_notify"
  /\ UNCHANGED <<cliVars, Request, Size, copyVars, respVars, fileVars, closeCalls,
                 errArg, ret, chanUser, recvInternal, recvUser, obsVars>>

\* if notifyOnCloseInternal != nil { notifyOnCloseInternal <- c }: the nil
\* test and the send into a buffered channel with room
CloseNotifyInternal ==
  /\ pc = "close_notifyInternal"
  /\ Request.notifyOnCloseInternal # "unbuffered"
  /\ IF Request.notifyOnCloseInternal = "nil"
       THEN chanInternal' = chanInternal
       ELSE Len(chanInternal) < 1 /\ chanInternal' = Append(chanInternal, "c")
  /\ pc' = "close_notify"
  /\ UNCHANGED <<cliVars, Request, Size, copyVars, respVars, fileVars, closeCalls,
                 errArg, ret, chanUser, recvInternal, recvUser, obsVars>>

\* if NotifyOnClose != nil { NotifyOnClose <- c }
CloseNotify ==
  /\ pc = "close_notify"
  /\ Request.NotifyOnClose # "unbuffered"
  /\ IF Request.NotifyOnClose = "nil"
       THEN chanUser' = chanUser
       ELSE Len(chanUser) < 1 /\ chanUser' = Append(chanUser, "c")
  /\ pc' = "close_return"
  /\ UNCHANGED <<cliVars, Request, Size, copyVars, respVars, fileVars, closeCalls,
                 errArg, ret, chanInternal, recvInternal, recvUser, obsVars>>

\* return err, then the deferred f.Close() and c.writer.Close() of copy()
Return ==
  /\ pc = "close_return"
  /\ ret' = errArg
  /\ f' = IF f = "none" THEN f ELSE "closed"
  /\ handleCloses' = handleCloses + 1
  /\ pc' = "returned"
  /\ UNCHANGED <<cliVars, Request, Size, copyVars, writer, bytesTransferred, doneFlag,
                 Error, End, written, fileExists, hashState, hashed,
                 closeCalls, errArg, chanVars, obsVars>>

\* ------------------------------------------------- owners of the channels
\* <-notifyOnCloseInternal: take from the buffer, or meet the sender that is
\* blocked on an unbuffered channel
RecvInternal ==
  /\ \/ /\ Request.notifyOnCloseInternal = "buffered"
        /\ chanInternal # <<>>
        /\ chanInternal' = Tail(chanInternal)
        /\ pc' = pc
     \/ /\ Request.notifyOnCloseInternal = "unbuffered"
        /\ pc = "close_notifyInternal"
        /\ chanInternal' = chanInternal
        /\ pc' = "close_notify"
  /\ recvInternal' = recvInternal + 1
  /\ UNCHANGED <<cliVars, Request, Size, copyVars, respVars, fileVars, closeCalls,
                 errArg, ret, chanUser, recvUser, obsVars>>

\* <-NotifyOnClose
RecvUser ==
  /\ \/ /\ Request.NotifyOnClose = "buffered"
        /\ chanUser # <<>>
        /\ chanUser' = Tail(chanUser)
        /\ pc' = pc
     \/ /\ Request.NotifyOnClose = "unbuffered"
        /\ pc = "close_notify"
        /\ chanUser' = chanUser
        /\ pc' = "close_return"
  /\ recvUser' = recvUser + 1
  /\ UNCHANGED <<cliVars, Request, Size, copyVars, respVars, fileVars, closeCalls,
                 errArg, ret, chanInternal, recvInternal, obsVars>>

\* ---------------------------------------------------- concurrent readers
\* a reader calls IsComplete()
ObserveIsComplete ==
  /\ obsComplete' = IsComplete
  /\ obsComplete' # obsComplete
  /\ UNCHANGED <<cliVars, pc, Request, Size, copyVars, respVars, fileVars, closeCalls,
                 errArg, ret, chanVars, obsBytes>>

\* a reader calls BytesTransferred()
ObserveBytesTransferred ==
  /\ obsBytes' = BytesTransferred
  /\ obsBytes' # obsBytes
  /\ UNCHANGED <<cliVars, pc, Request, Size, copyVars, respVars, fileVars, closeCalls,
                 errArg, ret, chanVars, obsComplete>>

\* ------------------------------------------------------- specifications
CopyTask ==
  \/ Read \/ Write \/ Advance \/ Verify \/ Open \/ HashFile \/ Compare
  \/ CloseWriter \/ CloseSetError \/ CloseSetEnd \/ CloseSetDone
  \/ CloseNotifyInternal \/ CloseNotify \/ Return

Next ==
  \/ CopyTask
  \/ RecvInternal
  \/ RecvUser
  \/ ObserveIsComplete
  \/ ObserveBytesTransferred

Spec == Init /\ [][Next]_vars

\* the copy task and the owners of the channels, without the readers (a
\* reader writes nothing the copy task or an owner reads)
NotifyNext ==
  \/ CopyTask
  \/ RecvInternal
  \/ RecvUser

\* the Go scheduler runs the copy task whenever it can take a step, and the
\* owners of the channels keep receiving
LiveSpec ==
  /\ Init
  /\ [][NotifyNext]_vars
  /\ WF_vars(CopyTask)
  /\ WF_vars(RecvInternal)
  /\ WF_vars(RecvUser)

\* ------------------------------------------------------------------ main
\* no transfer of the engine is followed while main() is modelled
EngineIdle ==
  /\ pc = "idle"
  /\ Request = [Hash |-> FALSE, Checksum |-> NilBytes,
                RemoveOnError |-> FALSE, notifyOnCloseInternal |-> "nil",
                NotifyOnClose |-> "nil"]
  /\ Size = 0
  /\ reads = 0
  /\ bodyBytes = 0
  /\ n = 0
  /\ err = NoError
  /\ complete = FALSE
  /\ writer = "handle"
  /\ handleCloses = 0
  /\ written = 0
  /\ fileExists = TRUE
  /\ f = "none"
  /\ hashState = 0
  /\ hashed = "no"
  /\ bytesTransferred = 0
  /\ doneFlag = 0
  /\ Error = NoError
  /\ End = ZeroTime
  /\ closeCalls = 0
  /\ errArg = NoError
  /\ ret = "none"
  /\ chanInternal = <<>>
  /\ chanUser = <<>>
  /\ recvInternal = 0
  /\ recvUser = 0
  /\ obsComplete = FALSE
  /\ obsBytes = 0

\* numbers of positional arguments: the small ones, and one that gives the
\* dispatcher ExitStatusRange URLs
ArgCounts == (0..MaxArgs) \cup {ExitStatusRange + 1}

\* the process starts: main() at flag.Parse(), with context.Background()
\* for the batch; a cancellable context stands for a caller of the
\* dispatcher that can cancel
CliInit ==
  /\ EngineIdle
  /\ mainPc = "parse"
  /\ args \in ArgCounts
  /\ urls = 0
  /\ ctx \in {"background", "cancellable"}
  /\ batchCalled = FALSE
  /\ inflight = 0
  /\ received = 0
  /\ failed = 0
  /\ exitStatus = -1

\* args := flag.Args(); if len(args) < 1 { usage; os.Exit(1) };
\* urls := args[1:]
MainParse ==
  /\ mainPc = "parse"
  /\ IF args < 1
       THEN /\ mainPc' = "exit_usage"
            /\ exitStatus' = ExitStatus(1)
            /\ urls' = urls
       ELSE /\ urls' = args - 1
            /\ mainPc' = "batch"
            /\ exitStatus' = exitStatus
  /\ UNCHANGED <<args, ctx, batchCalled, inflight, received, failed,
                 engineVars>>

\* GetBatch fails only on constructing a request, before any transfer
BatchConstructs == IF urls = 0 THEN {TRUE} ELSE BOOLEAN

\* respch, err := grabui.GetBatch(ctx, 0, *dest, urls...) and the test of
\* err; with limit 0 every transfer is in flight at once
MainGetBatch ==
  /\ mainPc = "batch"
  /\ batchCalled' = TRUE
  /\ \E ok \in BatchConstructs :
       IF ok
         THEN /\ inflight' = urls
              /\ mainPc' = "range"
              /\ exitStatus' = exitStatus
         ELSE /\ inflight' = inflight
              /\ mainPc' = "exit_error"
              /\ exitStatus' = ExitStatus(1)
  /\ UNCHANGED <<args, urls, ctx, received, failed, engineVars>>

\* the owner of the context cancels it while transfers are in flight
BatchCancel ==
  /\ mainPc = "range"
  /\ ctx = "cancellable"
  /\ inflight > 0
  /\ ctx' = "cancelled"
  /\ UNCHANGED <<mainPc, args, urls, batchCalled, inflight, received, failed,
                 exitStatus, engineVars>>

\* the errors a transfer of the batch can finish with: after cancellation
\* the transfers in flight finish with the cancellation error
BatchOutcomes ==
  IF ctx = "cancelled" THEN {"errCanceled"} ELSE {NoError, "errRead"}

\* respch is closed once every transfer of the batch has been yielded
BatchClosed == inflight = 0

\* MainRange leaving the loop at the first failed transfer
MainRangeBreakOnError ==
  /\ mainPc = "range"
  /\ ~BatchClosed
  /\ \E e \in BatchOutcomes :
       /\ inflight' = inflight - 1
       /\ received' = received + 1
       /\ failed' = IF e # NoError THEN failed + 1 ELSE failed
       /\ IF e # NoError
            THEN mainPc' = "exit_drained" /\ exitStatus' = ExitStatus(failed')
            ELSE mainPc' = mainPc /\ exitStatus' = exitStatus
  /\ UNCHANGED <<args, urls, ctx, batchCalled, engineVars>>

\* for resp := range respch { if resp.Err() != nil { failed++ } }: one
\* finished transfer is yielded and received
MainRange ==
  /\ mainPc = "range"
  /\ ~BatchClosed
  /\ \E e \in BatchOutcomes :
       /\ inflight' = inflight - 1
       /\ received' = received + 1
       /\ failed' = IF e # NoError THEN failed + 1 ELSE failed
  /\ UNCHANGED <<mainPc, args, urls, ctx, batchCalled, exitStatus,
                 engineVars>>

\* the range loop ends on the closed respch; os.Exit(failed)
MainExit ==
  /\ mainPc = "range"
  /\ BatchClosed
  /\ exitStatus' = ExitStatus(failed)
  /\ mainPc' = "exit_drained"
  /\ UNCHANGED <<args, urls, ctx, batchCalled, inflight, received, failed,
                 engineVars>>

MainTask == MainParse \/ MainGetBatch \/ MainRange \/ MainExit

CliNext ==
  \/ MainParse
  \/ MainGetBatch
  \/ MainRange
  \/ MainExit
  \/ BatchCancel

CliSpec == CliInit /\ [][CliNext]_vars

\* main() runs whenever it can take a step; a transfer in flight finishes
CliLiveSpec ==
  /\ CliInit
  /\ [][CliNext]_vars
  /\ WF_vars(MainTask)

\* the values the fields of the Response range over
TypeOK ==
  /\ doneFlag \in 0..1
  /\ bytesTransferred \in 0..(MaxReads * MaxChunk)
  /\ writer \in {"handle", "nil"}
  /\ f \in {"none", "open", "closed"}
  /\ hashState \in Digests
  /\ hashed \in {"no", "partial", "full"}
  /\ End \in {ZeroTime, "now"}
\* ================================================================ claims
\* positions of the copy task before the latch is incremented
BeforeLatch ==
  {"read", "write", "advance", "verify", "open", "hash", "compare",
   "close_writer", "close_error", "close_end", "close_done"}

\* C1: every execution of copy() invokes close() exactly once: close() is
\* never entered twice, the latch never exceeds 1, and when copy() has
\* returned close() was entered once and doneFlag is exactly 1.
Thm_C1 ==
  /\ closeCalls <= 1
  /\ doneFlag <= 1
  /\ pc = "returned" => (closeCalls = 1 /\ doneFlag = 1)

\* copy() has returned after a read error
Wit_C1 == pc = "returned" /\ ret \in ReadErrors /\ doneFlag = 1

\* C2: IsComplete() is false from creation until the finalizer increments
\* doneFlag; the flag changes only by that one increment from 0 to 1, never
\* goes back, and a reader that saw true sees true on every later call.
Thm_C2 ==
  /\ [](pc \in BeforeLatch => ~IsComplete)
  /\ [](pc \notin BeforeLatch => IsComplete)
  /\ [][/\ IsComplete => IsComplete'
        /\ obsComplete => (obsComplete' /\ IsComplete')
        /\ doneFlag' # doneFlag =>
             (pc = "close_done" /\ doneFlag = 0 /\ doneFlag' = 1)]_vars

\* a reader has seen the transfer complete while close() is still notifying
Wit_C2 == obsComplete /\ pc = "close_notifyInternal"

\* C3: BytesTransferred() never decreases, a reader's successive reads
\* never decrease, and the counter does not change once IsComplete() is true.
Thm_C3 ==
  [][/\ bytesTransferred' >= bytesTransferred
     /\ obsBytes' >= obsBytes
     /\ IsComplete => bytesTransferred' = bytesTransferred]_vars

\* a reader holds an earlier value of the counter, which has advanced since
Wit_C3 == obsBytes > 0 /\ obsBytes < bytesTransferred

\* C4: whenever IsComplete() is true, Error holds the error passed to the
\* finalizer; it is not modified afterwards; and it is the value copy()
\* returns.
Thm_C4 ==
  /\ [](IsComplete => Error = errArg)
  /\ [](pc = "returned" => ret = Error)
  /\ [][IsComplete => Error' = Error]_vars

\* the transfer completed with a write error and copy() returned it
Wit_C4 == IsComplete /\ pc = "returned" /\ Error = "errWrite"
\* the request asks for verification: hash and expected digest supplied
WantsChecksum == Request.Hash /\ Request.Checksum # NilBytes

\* C5: with Hash and Checksum set, once the copy reached end-of-stream and
\* the digest of the whole file differs from the expected one, the
\* transfer completes with errChecksumMismatch and the file is absent
\* exactly when RemoveOnError is set.
Thm_C5 ==
  (/\ WantsChecksum
   /\ complete
   /\ hashed = "full"
   /\ Sum(hashState) # Request.Checksum
   /\ IsComplete)
  => (/\ Error = errChecksumMismatch
      /\ ~fileExists <=> Request.RemoveOnError)

\* a mismatching transfer with RemoveOnError has returned, the file is gone
Wit_C5 ==
  /\ pc = "returned"
  /\ hashed = "full"
  /\ Sum(hashState) # Request.Checksum
  /\ Request.RemoveOnError
  /\ ~fileExists
  /\ Error = errChecksumMismatch

\* C6: the file is opened, hashed or removed only when both Hash and
\* Checksum are supplied and the loop ended on end-of-stream; without an
\* expected digest a copy whose reads and writes all succeeded completes
\* with Error = nil.
Thm_C6 ==
  /\ (f # "none" \/ hashed # "no" \/ ~fileExists)
       => (WantsChecksum /\ complete)
  /\ (~WantsChecksum /\ complete /\ IsComplete) => Error = NoError

\* a hash is supplied without a digest, bytes were copied, copy() returned
Wit_C6 ==
  /\ Request.Hash
  /\ Request.Checksum = NilBytes
  /\ pc = "returned"
  /\ complete
  /\ written > 0
  /\ f = "none"
  /\ Error = NoError

\* C7: when a transfer has completed with Error = nil, BytesTransferred()
\* equals the bytes written through the destination handle, which is the
\* sum of n over all body reads.
Thm_C7 ==
  (IsComplete /\ Error = NoError)
    => (bytesTransferred = written /\ bytesTransferred = bodyBytes)

\* success where every read, the last one with end-of-stream too, gave bytes
Wit_C7 ==
  /\ IsComplete
  /\ Error = NoError
  /\ reads = MaxReads
  /\ bytesTransferred = MaxReads * MaxChunk

\* C8: a transfer that completed with Error = nil and Size > 0 has
\* BytesTransferred() = Size, so Progress() is 1.
CE_C8 ==
  (IsComplete /\ Error = NoError /\ Size > 0)
    => (bytesTransferred = Size /\ Progress[1] = Progress[2])

\* C9 as claimed: in every state End is set exactly when the latch is set.
CE_C9 == (End # ZeroTime) <=> (doneFlag > 0)

\* C9 as amended: whenever the latch is set End is set, and End is set
\* without the latch only while close() stands between stamping End and
\* incrementing the latch.
Thm_C9 ==
  /\ doneFlag > 0 => End # ZeroTime
  /\ (End # ZeroTime /\ doneFlag = 0) => pc = "close_done"
  /\ closeCalls = 0 => End = ZeroTime

\* a failed transfer has set the latch and End is stamped
Wit_C9 == doneFlag > 0 /\ End # ZeroTime /\ Error = "errOpen"
\* number of deliveries a sink of this kind is owed
Owed(kind) == IF kind = "nil" THEN 0 ELSE 1

\* C10: no sink receives the Response twice and an absent sink receives
\* nothing; at a nil sink close() can always step on; and, the owners
\* receiving, once close() is entered copy() returns with each configured
\* sink having received the Response exactly once.
Thm_C10 ==
  /\ [](recvInternal <= Owed(Request.notifyOnCloseInternal))
  /\ [](recvUser <= Owed(Request.NotifyOnClose))
  /\ []((pc = "close_notifyInternal" /\ Request.notifyOnCloseInternal = "nil")
          => ENABLED CloseNotifyInternal)
  /\ []((pc = "close_notify" /\ Request.NotifyOnClose = "nil")
          => ENABLED CloseNotify)
  /\ (closeCalls = 1) ~>
       [](/\ pc = "returned"
          /\ recvInternal = Owed(Request.notifyOnCloseInternal)
          /\ recvUser = Owed(Request.NotifyOnClose))

\* copy() returned after an unbuffered internal and a buffered user delivery
Wit_C10 ==
  /\ pc = "returned"
  /\ Request.notifyOnCloseInternal = "unbuffered"
  /\ Request.NotifyOnClose = "buffered"
  /\ recvInternal = 1
  /\ recvUser = 1
CE_C12 ==
  mainPc = "exit_drained" =>
    (exitStatus = failed /\ (exitStatus = 0 <=> failed = 0))

\* C13: with zero or one positional argument main() prints the usage and
\* exits 1 without invoking the dispatcher.
CE_C13 ==
  (args <= 1 /\ mainPc # "parse") =>
    (mainPc = "exit_usage" /\ exitStatus = 1 /\ ~batchCalled)

\* positions of the copy task inside the checksum stage
VerifyStage == {"open", "hash", "compare"}

\* C14: copy, then verification, then finalization: the destination handle
\* has been closed when the file is opened for hashing, nothing is read
\* from the body or written to the destination once the loop has ended,
\* verification runs only after the loop ended, and the latch is set only
\* when a verification that was due has failed or compared the digests.
Thm_C14 ==
  /\ []((pc \in VerifyStage \/ f # "none") => (complete /\ handleCloses >= 1))
  /\ [](pc \in VerifyStage => (closeCalls = 0 /\ doneFlag = 0))
  /\ []((IsComplete /\ complete /\ WantsChecksum)
          => (errArg = "errOpen" \/ hashed # "no"))
  /\ [][complete => (reads' = reads /\ written' = written
                     /\ bodyBytes' = bodyBytes)]_vars

\* the file is being hashed, the destination handle was closed once
Wit_C14 == pc = "hash" /\ f = "open" /\ handleCloses = 1 /\ written > 0

\* C15: a failed write finalizes with that error at once: the step enters
\* close() without advancing the counter, afterwards nothing is read,
\* written or counted and no checksum stage runs; the counter never
\* exceeds the bytes written.
Thm_C15 ==
  /\ [](bytesTransferred <= written)
  /\ [](errArg = "errWrite" =>
          (/\ ~complete
           /\ f = "none"
           /\ hashed = "no"
           /\ IsComplete => Error = "errWrite"))
  /\ [][(pc = "write" /\ pc' \notin {"write", "advance"}) =>
          (/\ pc' = "close_writer"
           /\ errArg' = "errWrite"
           /\ bytesTransferred' = bytesTransferred)]_vars
  /\ [][errArg = "errWrite" =>
          (/\ reads' = reads
           /\ written' = written
           /\ bytesTransferred' = bytesTransferred)]_vars

\* a write failed after taking part of its chunk, the transfer completed
Wit_C15 == IsComplete /\ Error = "errWrite" /\ written > bytesTransferred

\* C16: a read error other than end-of-stream finalizes with that error:
\* the step enters close() with the bytes it returned neither written nor
\* counted, afterwards nothing is read, written or counted and no checksum
\* stage runs.
Thm_C16 ==
  /\ [](errArg \in ReadErrors =>
          (/\ ~complete
           /\ f = "none"
           /\ hashed = "no"
           /\ IsComplete => Error = errArg))
  /\ [][pc = "read" =>
          (/\ written' = written
           /\ bytesTransferred' = bytesTransferred
           /\ pc' = "close_writer" <=> errArg' \in ReadErrors)]_vars
  /\ [][(errArg \in ReadErrors) =>
          (/\ reads' = reads
           /\ written' = written
           /\ errArg' = errArg
           /\ bytesTransferred' = bytesTransferred)]_vars

\* a cancelled read that returned bytes: they are not in the file
Wit_C16 == IsComplete /\ Error = "errCanceled" /\ bodyBytes > written

\* C17: the loop ends only on end-of-stream: an iteration whose read gave
\* no error, 0 bytes included, has reading as its only next position and
\* does not enter close() (once its write succeeded), and a read of 0 bytes leaves the
\* counter as it is; the loop is left for verification or for a nil
\* completion only from an iteration whose read returned end-of-stream;
\* after end-of-stream nothing is read.
Thm_C17 ==
  /\ []((pc \in VerifyStage \/ pc = "verify") => complete)
  /\ []((IsComplete /\ Error = NoError) => complete)
  /\ [][(pc = "advance" /\ err = NoError) =>
          (pc' \in {"advance", "read"} /\ closeCalls' = closeCalls /\ ~complete')]_vars
  /\ [][(pc = "advance" /\ n = 0) =>
          bytesTransferred' = bytesTransferred]_vars
  /\ [][(~complete /\ complete') => (pc = "advance" /\ err = EOF)]_vars
  /\ [][(err = EOF \/ complete) => reads' = reads]_vars

\* a read of 0 bytes without error was followed by end-of-stream
Wit_C17 ==
  /\ pc = "returned"
  /\ complete
  /\ reads = MaxReads
  /\ bodyBytes = 0
  /\ Error = NoError

\* C18: the destination handle is closed exactly once in every run of
\* copy(), by the loop at end-of-stream or else by close(), and it is
\* released (writer = nil) in every state after finalization.
CE_C18 ==
  /\ handleCloses <= 1
  /\ pc = "returned" => handleCloses = 1
  /\ IsComplete => writer = "nil"

\* C19: the file is removed only after a digest mismatch with
\* RemoveOnError set; an error of os.Open or io.Copy in verification is the
\* recorded Error and leaves the file in place.
Thm_C19 ==
  /\ ~fileExists =>
       (/\ WantsChecksum
        /\ Request.RemoveOnError
        /\ hashed = "full"
        /\ Sum(hashState) # Request.Checksum)
  /\ hashed = "partial" => errArg = "errHash"
  /\ (IsComplete /\ errArg \in {"errOpen", "errHash"}) =>
       (Error = errArg /\ fileExists)

\* hashing failed with RemoveOnError set: the file is still there
Wit_C19 ==
  /\ IsComplete
  /\ Error = "errHash"
  /\ Request.RemoveOnError
  /\ fileExists

\* the Response has been sent to a sink or received from one
Delivered ==
  \/ recvInternal > 0
  \/ recvUser > 0
  \/ chanInternal # <<>>
  \/ chanUser # <<>>

\* C20: a Response that was sent to or received from a sink is finished:
\* the latch is set, Error and End are set, the handle is released, and
\* none of these nor the counter changes afterwards.
Thm_C20 ==
  /\ [](Delivered =>
          (/\ IsComplete
           /\ Error = errArg
           /\ End # ZeroTime
           /\ writer = "nil"))
  /\ [][Delivered =>
          (/\ doneFlag' = doneFlag
           /\ Error' = Error
           /\ End' = End
           /\ writer' = writer
           /\ bytesTransferred' = bytesTransferred)]_vars

\* the user's owner received a mismatching Response before close() returned
Wit_C20 ==
  /\ recvUser = 1
  /\ pc = "close_return"
  /\ Error = errChecksumMismatch
====
